---- MODULE Spec2Model ----
(***************************************************************************)
(* Installation-plan construction (constructInstallationPlan) of the       *)
(* install command, in its three revisions:                                *)
(*   "v1"  src/src/commands/install/construct-plan.ts                      *)
(*   "v3"  src/src/commands/install/construct-plan-v3.ts  (cache file)     *)
(*   "v4"  src/unnamed/part_000                           (hoisting pass)  *)
(*                                                                         *)
(* JavaScript strings are sequences of tokens; a token is a run of         *)
(* characters holding none of the delimiters the code splits on or joins   *)
(* with ("@", "/", ".", "##", "||", " ", "^", ...), or one such delimiter. *)
(* An optional value (undefined / null) is the empty tuple, a present one  *)
(* the one-element tuple holding it.                                       *)
(***************************************************************************)
EXTENDS Integers, Sequences, FiniteSets, TLC

VARIABLES
    variant,              \* which revision of the function the process runs
    cacheFile,            \* packageInfoCache.json on disk (v3)
    pc,                   \* per call: where the async function stands
    topLevelDependencies, \* per call: the argument, in Object.entries order
    todo,                 \* per call: pending processDependency calls, depth first
    fetching,             \* per call: the processDependency call awaiting the registry
    installationPlan,     \* per call: InstallationPlan array
    dependencyMap,        \* per call: Map depKey -> {name, versionRange, parentDirectory}
    packageInfoCache,     \* per call: Map packageName -> metadata
    versionUsageCount,    \* per call: Map "name@version" -> {count, parentDirectories}
    requests,             \* per call: registry requests issued, by package name
    outcome               \* per call: the returned promise

vars == <<variant, cacheFile, pc, topLevelDependencies, todo, fetching,
          installationPlan, dependencyMap, packageInfoCache, versionUsageCount,
          requests, outcome>>

(***************************************************************************)
(* Bounds                                                                  *)
(***************************************************************************)
MaxTop == 3
MaxCalls == 2
\* the nesting depth down to which the walk is followed
MaxDepth == 3

Calls == 1..MaxCalls

(***************************************************************************)
(* Optional values and strings                                             *)
(***************************************************************************)
Occurrences(seq, x) == Cardinality({i \in 1..Len(seq) : seq[i] = x})

Undefined == <<>>
Def(x) == <<x>>
IsDef(o) == o # <<>>

RootStr == <<"root">>
NodeModulesStr == <<"node_modules">>

\* a || b on an optional string: undefined and '' are falsy
OrElse(o, s) == IF o = Undefined \/ o[1] = <<>> THEN s ELSE o[1]

RECURSIVE SplitFrom(_, _, _)
\* String.prototype.split(sep): cur is the piece being read
SplitFrom(s, sep, cur) ==
    IF s = <<>> THEN <<cur>>
    ELSE IF Head(s) = sep THEN <<cur>> \o SplitFrom(Tail(s), sep, <<>>)
    ELSE SplitFrom(Tail(s), sep, Append(cur, Head(s)))

Split(s, sep) == SplitFrom(s, sep, <<>>)

RECURSIVE JoinWith(_, _)
\* Array.prototype.join(sep)
JoinWith(parts, sep) ==
    IF parts = <<>> THEN <<>>
    ELSE IF Len(parts) = 1 THEN parts[1]
    ELSE parts[1] \o <<sep>> \o JoinWith(Tail(parts), sep)

RECURSIVE NormalizeSegments(_, _)
\* path.normalize on the segments of a relative path: "" and "." are dropped,
\* ".." removes the segment before it (or stays, at the front)
NormalizeSegments(segs, acc) ==
    IF segs = <<>> THEN acc
    ELSE LET g == Head(segs) IN
         IF g = <<>> \/ g = <<".">> THEN NormalizeSegments(Tail(segs), acc)
         ELSE IF g = <<"..">> /\ acc # <<>> /\ acc[Len(acc)] # <<"..">>
              THEN NormalizeSegments(Tail(segs), SubSeq(acc, 1, Len(acc) - 1))
         ELSE NormalizeSegments(Tail(segs), Append(acc, g))

\* path.join(a, b, c) (posix)
PathJoin3(a, b, c) ==
    LET joined == JoinWith(<<a, b, c>>, "/")
        norm == JoinWith(NormalizeSegments(Split(joined, "/"), <<>>), "/")
    IN IF norm = <<>> THEN <<".">> ELSE norm

(***************************************************************************)
(* semver (the library the code imports), for x.y.z versions and the       *)
(* ranges  x.y.z   ^x.y.z   *   >=x.y.z <u.v.w-0   and  r1 || r2           *)
(***************************************************************************)
Digits == <<"0", "1", "2", "3", "4", "5", "6", "7", "8", "9">>
NumStr(n) == Digits[n + 1]
IsNum(t) == \E i \in 1..Len(Digits) : Digits[i] = t
NumVal(t) == (CHOOSE i \in 1..Len(Digits) : Digits[i] = t) - 1

\* the text of version M.m.p and of the ranges over it
Ver(M, m, p) == <<NumStr(M), ".", NumStr(m), ".", NumStr(p)>>
Caret(M, m, p) == <<"^">> \o Ver(M, m, p)
Star == <<"*">>

\* new SemVer(s): <<major, minor, patch>>, or undefined when s is no version
ParseVersion(s) ==
    IF /\ Len(s) = 5
       /\ IsNum(s[1]) /\ s[2] = "." /\ IsNum(s[3]) /\ s[4] = "." /\ IsNum(s[5])
    THEN Def(<<NumVal(s[1]), NumVal(s[3]), NumVal(s[5])>>)
    ELSE Undefined

\* SemVer.compare: -1, 0, 1
CompareVer(x, y) ==
    IF x[1] # y[1] THEN (IF x[1] < y[1] THEN -1 ELSE 1)
    ELSE IF x[2] # y[2] THEN (IF x[2] < y[2] THEN -1 ELSE 1)
    ELSE IF x[3] # y[3] THEN (IF x[3] < y[3] THEN -1 ELSE 1)
    ELSE 0

RECURSIVE Trim(_)
\* String.prototype.trim, on the space token
Trim(s) ==
    IF s # <<>> /\ Head(s) = " " THEN Trim(Tail(s))
    ELSE IF s # <<>> /\ s[Len(s)] = " " THEN Trim(SubSeq(s, 1, Len(s) - 1))
    ELSE s

\* one comparator set of a range: [lo, hi) over versions, hi undefined for
\* "no upper limit", exact for a single version; undefined when malformed
ParseComparator(s) ==
    IF s = Star \/ s = <<>>
    THEN Def([lo |-> <<0, 0, 0>>, hi |-> Undefined, kind |-> "any"])
    ELSE IF s # <<>> /\ Head(s) = "^" /\ IsDef(ParseVersion(Tail(s)))
    THEN LET v == ParseVersion(Tail(s))[1] IN
         Def([lo |-> v,
              hi |-> Def(IF v[1] > 0 THEN <<v[1] + 1, 0, 0>>
                         ELSE IF v[2] > 0 THEN <<0, v[2] + 1, 0>>
                         ELSE <<0, 0, v[3] + 1>>),
              kind |-> "caret"])
    ELSE IF IsDef(ParseVersion(s))
    THEN Def([lo |-> ParseVersion(s)[1], hi |-> Undefined, kind |-> "exact"])
    ELSE IF /\ Len(s) = 15
            /\ s[1] = ">=" /\ IsDef(ParseVersion(SubSeq(s, 2, 6)))
            /\ s[7] = " " /\ s[8] = "<" /\ IsDef(ParseVersion(SubSeq(s, 9, 13)))
            /\ s[14] = "-" /\ s[15] = "0"
    THEN Def([lo |-> ParseVersion(SubSeq(s, 2, 6))[1],
              hi |-> Def(ParseVersion(SubSeq(s, 9, 13))[1]),
              kind |-> "caret"])
    ELSE Undefined

\* new Range(r): the comparator sets of r1 || r2 || ..., undefined when any
\* of them is malformed (the constructor throws)
ParseRange(r) ==
    LET parts == Split(r, "||")
        sets == [i \in 1..Len(parts) |-> ParseComparator(Trim(parts[i]))]
    IN IF \E i \in 1..Len(parts) : sets[i] = Undefined THEN Undefined
       ELSE Def([i \in 1..Len(parts) |-> sets[i][1]])

\* Comparator set test
TestComparator(c, v) ==
    IF c.kind = "exact" THEN CompareVer(v, c.lo) = 0
    ELSE /\ CompareVer(v, c.lo) >= 0
         /\ (IsDef(c.hi) => CompareVer(v, c.hi[1]) < 0)

\* Range.test(version): false for a string that is no version
RangeTest(sets, vs) ==
    /\ IsDef(ParseVersion(vs))
    /\ \E i \in 1..Len(sets) : TestComparator(sets[i], ParseVersion(vs)[1])

\* semver.satisfies(version, range)
Satisfies(vs, r) == IsDef(ParseRange(r)) /\ RangeTest(ParseRange(r)[1], vs)

RECURSIVE MaxSatisfyingFirst(_, _, _)
\* mutant of MaxSatisfyingFrom: the comparison with the best so far is lost,
\* the first satisfying version is kept
MaxSatisfyingFirst(versions, sets, max) ==
    IF versions = <<>> THEN max
    ELSE IF RangeTest(sets, Head(versions)) /\ max = Undefined
         THEN MaxSatisfyingFirst(Tail(versions), sets, Def(Head(versions)))
         ELSE MaxSatisfyingFirst(Tail(versions), sets, max)

RECURSIVE MaxSatisfyingFrom(_, _, _)
\* the forEach of semver.maxSatisfying: max is the best version so far
MaxSatisfyingFrom(versions, sets, max) ==
    IF versions = <<>> THEN max
    ELSE LET v == Head(versions) IN
         IF /\ RangeTest(sets, v)
            /\ \/ max = Undefined
               \/ CompareVer(ParseVersion(max[1])[1], ParseVersion(v)[1]) = -1
         THEN MaxSatisfyingFrom(Tail(versions), sets, Def(v))
         ELSE MaxSatisfyingFrom(Tail(versions), sets, max)

\* semver.maxSatisfying(versions, range): null when the range is malformed
\* or nothing satisfies it
MaxSatisfying(versions, range) ==
    IF ParseRange(range) = Undefined THEN Undefined
    ELSE MaxSatisfyingFrom(versions, ParseRange(range)[1], Undefined)

\* Comparator text in Range.format
FormatComparator(c) ==
    IF c.kind = "any" THEN <<>>
    ELSE IF c.kind = "exact" THEN Ver(c.lo[1], c.lo[2], c.lo[3])
    ELSE <<">=">> \o Ver(c.lo[1], c.lo[2], c.lo[3]) \o <<" ", "<">>
         \o Ver(c.hi[1][1], c.hi[1][2], c.hi[1][3]) \o <<"-", "0">>

\* semver.validRange(range): the range's canonical text, '*' for the empty
\* text, null when malformed
ValidRange(r) ==
    IF ParseRange(r) = Undefined THEN Undefined
    ELSE LET sets == ParseRange(r)[1]
             text == JoinWith([i \in 1..Len(sets) |-> FormatComparator(sets[i])], "||")
         IN Def(IF text = <<>> THEN Star ELSE text)

(***************************************************************************)
(* The registry (https://registry.npmjs.org/<packageName>) and the inputs  *)
(***************************************************************************)
NameA == <<"a">>
NameB == <<"b">>
NameC == <<"c">>
NameRoot == <<"root">>
NameScoped == <<"@", "s", "/", "p">>
NameMissing == <<"zz">>
\* two packages that depend on each other
NameX == <<"x">>
NameY == <<"y">>

Dep(n, r) == [name |-> n, version |-> r]

\* one version of a registry document: its dependencies object (in key order;
\* undefined when the field is absent) among fields the planner does not use
Doc(v, deps) == [version |-> v, dependencies |-> deps, dist |-> "tarball"]

\* the `versions` object of a package's registry document, in key order;
\* undefined for a package the registry does not have (status 404)
RegistryVersions(name) ==
    IF name = NameA THEN
        Def(<<Doc(Ver(1, 0, 0), Def(<<Dep(NameC, Caret(1, 0, 0))>>)),
              Doc(Ver(1, 2, 0), Undefined),
              Doc(Ver(2, 0, 0), Def(<<>>))>>)
    ELSE IF name = NameB THEN
        Def(<<Doc(Ver(1, 0, 0), Def(<<Dep(NameC, Caret(1, 0, 0))>>)),
              Doc(Ver(2, 0, 0), Def(<<Dep(NameC, Caret(2, 0, 0))>>))>>)
    ELSE IF name = NameC THEN
        Def(<<Doc(Ver(2, 0, 0), Undefined),
              Doc(Ver(1, 0, 0), Def(<<Dep(NameScoped, Caret(1, 0, 0))>>))>>)
    ELSE IF name = NameRoot THEN
        Def(<<Doc(Ver(1, 0, 0), Def(<<Dep(NameA, Caret(2, 0, 0)), Dep(NameC, Caret(2, 0, 0)),
                                      Dep(NameRoot, Star)>>))>>)
    ELSE IF name = NameScoped THEN
        Def(<<Doc(Ver(1, 0, 0), Def(<<>>))>>)
    ELSE IF name = NameX THEN
        Def(<<Doc(Ver(1, 0, 0), Def(<<Dep(NameY, Caret(1, 0, 0))>>))>>)
    ELSE IF name = NameY THEN
        Def(<<Doc(Ver(1, 0, 0), Def(<<Dep(NameX, Caret(1, 0, 0))>>))>>)
    ELSE Undefined

\* the top-level declarations a package.json is drawn from
TopChoices ==
    { Dep(NameA, Caret(1, 0, 0)), Dep(NameA, Ver(1, 0, 0)), Dep(NameA, Caret(3, 0, 0)),
      Dep(NameA, <<"latest">>),
      Dep(NameB, Caret(1, 0, 0)),
      Dep(NameC, Star),
      Dep(NameRoot, Star),
      Dep(NameScoped, Caret(1, 0, 0)),
      Dep(NameMissing, Star),
      Dep(NameX, Star) }

\* Object.entries(topLevelDependencies): an object has each key once
DistinctNames(deps) ==
    \A i, j \in 1..Len(deps) : i # j => deps[i].name # deps[j].name

TopInputs ==
    { deps \in UNION { [1..n -> TopChoices] : n \in 0..MaxTop } : DistinctNames(deps) }

\* the arguments of the calls of a process that calls the function repeatedly
ProcessInputs ==
    { <<Dep(NameScoped, Caret(1, 0, 0))>>,
      <<Dep(NameRoot, Star)>>,
      <<Dep(NameMissing, Star)>> }

Variants == {"v1", "v3", "v4"}

(***************************************************************************)
(* Metadata cache                                                          *)
(***************************************************************************)
EmptyMap == [n \in {} |-> <<>>]

\* mutant of MapSet: the entry is not stored
MapSetLost(m, k, v) == m

\* mutant of MapSet: the map is replaced by the one entry
MapSetAlone(m, k, v) == [x \in {k} |-> v]

\* Map.prototype.set
MapSet(m, k, v) == [x \in DOMAIN m \cup {k} |-> IF x = k THEN v ELSE m[x]]

\* v4: relevantData keeps {dependencies} of every version, as the registry gave it
RelevantData(versions) ==
    [i \in 1..Len(versions) |->
        [version |-> versions[i].version, dependencies |-> versions[i].dependencies]]

\* v3: minimalData keeps {dependencies: versionData.dependencies || {}}
MinimalData(versions) ==
    [i \in 1..Len(versions) |->
        [version |-> versions[i].version,
         dependencies |-> IF IsDef(versions[i].dependencies)
                          THEN versions[i].dependencies ELSE Def(<<>>)]]

\* what getCachedPackageInfo stores for a fetched document
CachedData(v, versions) ==
    IF v = "v1" THEN versions
    ELSE IF v = "v3" THEN MinimalData(versions)
    ELSE RelevantData(versions)

AbsentFile == [state |-> "absent", json |-> EmptyMap]
MalformedFile == [state |-> "malformed", json |-> EmptyMap]
OkFile(names) ==
    [state |-> "ok", json |-> [n \in names |-> MinimalData(RegistryVersions(n)[1])]]

\* what packageInfoCache.json may hold when the process starts
FileStates ==
    {AbsentFile, MalformedFile, OkFile({NameA, NameC})}

\* v3 lines 26-37: the cache as loaded when the function is called
LoadCache(v, file) ==
    IF v = "v3" /\ file.state = "ok" THEN file.json ELSE EmptyMap

(***************************************************************************)
(* processDependency                                                       *)
(***************************************************************************)
Task(dep, parentDirectory) == [dep |-> dep, parentDirectory |-> parentDirectory]

\* `${parentDirectory || 'root'}##${dep.name}`
DepKey(dep, parentDirectory) ==
    OrElse(parentDirectory, RootStr) \o <<"##">> \o dep.name

\* mutant of HasKey: the slot looked up by the package name, not by depKey
HasKeyByName(map, key) == \E i \in 1..Len(map) : map[i].name = key

\* dependencyMap.has(depKey)
HasKey(map, key) == \E i \in 1..Len(map) : map[i].key = key
IndexOfKey(map, key) == CHOOSE i \in 1..Len(map) : map[i].key = key

\* `${x}` of a string or null
TemplateText(o) == IF o = Undefined THEN <<"null">> ELSE o[1]

\* the merge branch: existing.versionRange = validRange(`${existing} || ${new}`)
MergedRange(existing, range) ==
    ValidRange(TemplateText(existing) \o <<" ", "||", " ">> \o range)

\* resolveVersion: undefined stands for the throw
ResolveVersion(versions, range) == MaxSatisfying(versions, range)

\* Object.keys(packageInfo.versions)
AllVersions(info) == [i \in 1..Len(info) |-> info[i].version]

\* packageInfo.versions[resolvedVersion].dependencies || {}
DependenciesOf(info, resolvedVersion) ==
    LET i == CHOOSE k \in 1..Len(info) : info[k].version = resolvedVersion
    IN IF IsDef(info[i].dependencies) THEN info[i].dependencies[1] ELSE <<>>

\* mutant of ChildParentDirectory: the parent's own directory is dropped
ChildParentDirectoryFlat(dep, parentDirectory) == dep.name

\* mutant of ChildParentDirectory: the children placed beside their parent
ChildParentDirectorySibling(dep, parentDirectory) == OrElse(parentDirectory, RootStr)

\* parentDirectory ? path.join(parentDirectory, 'node_modules', dep.name) : dep.name
ChildParentDirectory(dep, parentDirectory) ==
    IF parentDirectory = Undefined \/ parentDirectory[1] = <<>>
    THEN dep.name
    ELSE PathJoin3(parentDirectory[1], NodeModulesStr, dep.name)

\* the recursive calls of the child loop, in Object.entries order
ChildTasks(dep, parentDirectory, dependencies) ==
    [i \in 1..Len(dependencies) |->
        Task(dependencies[i], Def(ChildParentDirectory(dep, parentDirectory)))]

\* `${dep.name}@${resolvedVersion}`
VersionCountKey(name, resolvedVersion) == name \o <<"@">> \o resolvedVersion

\* mutant of TrackUsage: a later use is counted but its directory not listed
TrackUsageCountOnly(usage, key, parentDirectory) ==
    LET dir == OrElse(parentDirectory, RootStr) IN
    IF \E i \in 1..Len(usage) : usage[i].key = key
    THEN [i \in 1..Len(usage) |->
            IF usage[i].key = key THEN [usage[i] EXCEPT !.count = @ + 1] ELSE usage[i]]
    ELSE Append(usage, [key |-> key, count |-> 1, parentDirectories |-> <<dir>>])

\* lines 108-114: the usage record of the key, created on first use
TrackUsage(usage, key, parentDirectory) ==
    LET dir == OrElse(parentDirectory, RootStr) IN
    IF \E i \in 1..Len(usage) : usage[i].key = key
    THEN [i \in 1..Len(usage) |->
            IF usage[i].key = key
            THEN [usage[i] EXCEPT !.count = @ + 1,
                                  !.parentDirectories = Append(@, dir)]
            ELSE usage[i]]
    ELSE Append(usage, [key |-> key, count |-> 1, parentDirectories |-> <<dir>>])

\* how deep below the top level a directory lies: 0 for undefined, 1 for
\* "a", 2 for "a/node_modules/b"
Depth(parentDirectory) ==
    IF parentDirectory = Undefined THEN 0
    ELSE Occurrences(parentDirectory[1], "node_modules") + 1

\* the walk is followed down to MaxDepth; a processDependency call deeper
\* than that is left pending
WithinDepth(task) == Depth(task.parentDirectory) <= MaxDepth

PlanItem(name, version, parentDirectory) ==
    [name |-> name, version |-> version, parentDirectory |-> parentDirectory]

(***************************************************************************)
(* Hoisting pass (v4 lines 144-160)                                        *)
(***************************************************************************)
\* mutant of ExistingPlanItem: the top level looked up as undefined
ExistingPlanItemUndefined(plan, name, version) ==
    \E i \in 1..Len(plan) :
        /\ plan[i].name = name
        /\ plan[i].version = version
        /\ plan[i].parentDirectory = Undefined

\* installationPlan.find(item => ... item.parentDirectory === 'root')
ExistingPlanItem(plan, name, version) ==
    \E i \in 1..Len(plan) :
        /\ plan[i].name = name
        /\ plan[i].version = version
        /\ plan[i].parentDirectory = Def(RootStr)

\* const [name, version] = pkgVersion.split('@')
SplitKey(pkgVersion) ==
    LET parts == Split(pkgVersion, "@") IN
    [name |-> parts[1], version |-> parts[2]]

RECURSIVE HoistPassMoving(_, _)
\* mutant of HoistPass: a package is hoisted by moving its first entry to
\* 'root' instead of appending one
HoistPassMoving(usage, plan) ==
    IF usage = <<>> THEN plan
    ELSE LET nv == SplitKey(Head(usage).key) IN
         IF ExistingPlanItem(plan, nv.name, nv.version)
         THEN HoistPassMoving(Tail(usage), plan)
         ELSE IF \E i \in 1..Len(plan) :
                    plan[i].name = nv.name /\ plan[i].version = nv.version
         THEN LET k == CHOOSE i \in 1..Len(plan) :
                          /\ plan[i].name = nv.name /\ plan[i].version = nv.version
                          /\ \A j \in 1..(i - 1) :
                                ~(plan[j].name = nv.name /\ plan[j].version = nv.version)
              IN HoistPassMoving(Tail(usage),
                                 [plan EXCEPT ![k].parentDirectory = Def(RootStr)])
         ELSE HoistPassMoving(Tail(usage),
                              Append(plan, PlanItem(nv.name, nv.version, Def(RootStr))))

RECURSIVE HoistPass(_, _)
\* the loop over versionUsageCount.entries(), in insertion order
HoistPass(usage, plan) ==
    IF usage = <<>> THEN plan
    ELSE LET nv == SplitKey(Head(usage).key) IN
         IF ExistingPlanItem(plan, nv.name, nv.version)
         THEN HoistPass(Tail(usage), plan)
         ELSE HoistPass(Tail(usage),
                        Append(plan, PlanItem(nv.name, nv.version, Def(RootStr))))

(***************************************************************************)
(* constructInstallationPlan as a state machine.  pc:                      *)
(*   "idle"     not called yet                                             *)
(*   "walk"     between two processDependency calls                        *)
(*   "delay"    v3: awaiting the rate-limit timer before the request       *)
(*   "fetch"    awaiting the registry's answer                             *)
(*   "returned" the promise is fulfilled with the plan                     *)
(*   "failed"   the promise is rejected                                    *)
(***************************************************************************)
Pending == [state |-> "pending", value |-> <<>>, error |-> "none"]
Fulfilled(plan) == [state |-> "fulfilled", value |-> plan, error |-> "none"]
Rejected(e) == [state |-> "rejected", value |-> <<>>, error |-> e]

Init ==
    /\ variant \in Variants
    /\ cacheFile \in (IF variant = "v3" THEN FileStates ELSE {AbsentFile})
    /\ pc = [c \in Calls |-> "idle"]
    /\ topLevelDependencies = [c \in Calls |-> <<>>]
    /\ todo = [c \in Calls |-> <<>>]
    /\ fetching = [c \in Calls |-> Undefined]
    /\ installationPlan = [c \in Calls |-> <<>>]
    /\ dependencyMap = [c \in Calls |-> <<>>]
    /\ packageInfoCache = [c \in Calls |-> EmptyMap]
    /\ versionUsageCount = [c \in Calls |-> <<>>]
    /\ requests = [c \in Calls |-> <<>>]
    /\ outcome = [c \in Calls |-> Pending]

\* mutant of StartCall: the cache load without its try/catch, a malformed
\* file rejects the call
StartCallFatal(c, inputs) ==
    /\ pc[c] = "idle"
    /\ \A d \in Calls : d < c => pc[d] # "idle"
    /\ \E deps \in inputs :
        /\ topLevelDependencies' = [topLevelDependencies EXCEPT ![c] = deps]
        /\ todo' = [todo EXCEPT ![c] = [i \in 1..Len(deps) |-> Task(deps[i], Undefined)]]
    /\ packageInfoCache' = [packageInfoCache EXCEPT ![c] = LoadCache(variant, cacheFile)]
    /\ IF variant = "v3" /\ cacheFile.state = "malformed"
       THEN /\ pc' = [pc EXCEPT ![c] = "failed"]
            /\ outcome' = [outcome EXCEPT ![c] = Rejected("CacheReadError")]
       ELSE /\ pc' = [pc EXCEPT ![c] = "walk"]
            /\ UNCHANGED outcome
    /\ UNCHANGED <<variant, cacheFile, fetching, installationPlan, dependencyMap,
                   versionUsageCount, requests>>

\* the call itself: the locals, the cache load (v3) and the top-level loop's
\* pending processDependency calls
StartCall(c, inputs) ==
    /\ pc[c] = "idle"
    /\ \A d \in Calls : d < c => pc[d] # "idle"
    /\ \E deps \in inputs :
        /\ topLevelDependencies' = [topLevelDependencies EXCEPT ![c] = deps]
        /\ todo' = [todo EXCEPT ![c] = [i \in 1..Len(deps) |-> Task(deps[i], Undefined)]]
    /\ packageInfoCache' = [packageInfoCache EXCEPT ![c] = LoadCache(variant, cacheFile)]
    /\ pc' = [pc EXCEPT ![c] = "walk"]
    /\ UNCHANGED <<variant, cacheFile, fetching, installationPlan, dependencyMap,
                   versionUsageCount, requests, outcome>>

\* processDependency from the version resolution on (lines 98-136), with the
\* package's metadata at hand: the next values of the call's locals
Resolution(c, task, info) ==
    LET dep == task.dep
        resolved == ResolveVersion(AllVersions(info), dep.version)
    IN IF resolved = Undefined
       THEN [ok |-> FALSE, plan |-> installationPlan[c],
             usage |-> versionUsageCount[c], children |-> <<>>]
       ELSE [ok |-> TRUE,
             plan |-> Append(installationPlan[c],
                             PlanItem(dep.name, resolved[1], task.parentDirectory)),
             usage |-> IF variant = "v4"
                       THEN TrackUsage(versionUsageCount[c],
                                       VersionCountKey(dep.name, resolved[1]),
                                       task.parentDirectory)
                       ELSE versionUsageCount[c],
             children |-> ChildTasks(dep, task.parentDirectory,
                                     DependenciesOf(info, resolved[1]))]

\* mutant of Continue: a failed resolution is skipped and the walk goes on
ContinueDespiteFailure(c, r, rest) ==
    /\ installationPlan' = [installationPlan EXCEPT ![c] = r.plan]
    /\ versionUsageCount' = [versionUsageCount EXCEPT ![c] = r.usage]
    /\ todo' = [todo EXCEPT ![c] = r.children \o rest]
    /\ pc' = [pc EXCEPT ![c] = "walk"]
    /\ UNCHANGED outcome

\* mutant of Continue: the children are not awaited in place, they are
\* processed after the calls already pending
ContinueBreadthFirst(c, r, rest) ==
    /\ installationPlan' = [installationPlan EXCEPT ![c] = r.plan]
    /\ versionUsageCount' = [versionUsageCount EXCEPT ![c] = r.usage]
    /\ todo' = [todo EXCEPT ![c] = rest \o r.children]
    /\ pc' = [pc EXCEPT ![c] = IF r.ok THEN "walk" ELSE "failed"]
    /\ outcome' = [outcome EXCEPT ![c] =
                      IF r.ok THEN @ ELSE Rejected("UnsatisfiableRange")]

\* the call goes on from a resolution, or rejects when resolveVersion throws
Continue(c, r, rest) ==
    /\ installationPlan' = [installationPlan EXCEPT ![c] = r.plan]
    /\ versionUsageCount' = [versionUsageCount EXCEPT ![c] = r.usage]
    /\ todo' = [todo EXCEPT ![c] = r.children \o rest]
    /\ pc' = [pc EXCEPT ![c] = IF r.ok THEN "walk" ELSE "failed"]
    /\ outcome' = [outcome EXCEPT ![c] =
                      IF r.ok THEN @ ELSE Rejected("UnsatisfiableRange")]

\* processDependency on a slot already in dependencyMap: merge and return
MergeSighting(c) ==
    /\ pc[c] = "walk" /\ todo[c] # <<>>
    /\ WithinDepth(Head(todo[c]))
    /\ LET task == Head(todo[c])
           key == DepKey(task.dep, task.parentDirectory)
       IN /\ HasKey(dependencyMap[c], key)
          /\ dependencyMap' = [dependencyMap EXCEPT ![c] =
                [@ EXCEPT ![IndexOfKey(@, key)].versionRange =
                    MergedRange(@, task.dep.version)]]
          /\ todo' = [todo EXCEPT ![c] = Tail(@)]
    /\ UNCHANGED <<variant, cacheFile, pc, topLevelDependencies, fetching,
                   installationPlan, packageInfoCache, versionUsageCount,
                   requests, outcome>>

NewSlot(task) ==
    [key |-> DepKey(task.dep, task.parentDirectory), name |-> task.dep.name,
     versionRange |-> Def(task.dep.version), parentDirectory |-> task.parentDirectory]

\* processDependency on a new slot whose package is in packageInfoCache
FirstSightingCached(c) ==
    /\ pc[c] = "walk" /\ todo[c] # <<>>
    /\ WithinDepth(Head(todo[c]))
    /\ LET task == Head(todo[c])
           key == DepKey(task.dep, task.parentDirectory)
       IN /\ ~HasKey(dependencyMap[c], key)
          /\ task.dep.name \in DOMAIN packageInfoCache[c]
          /\ dependencyMap' = [dependencyMap EXCEPT ![c] = Append(@, NewSlot(task))]
          /\ Continue(c, Resolution(c, task, packageInfoCache[c][task.dep.name]),
                      Tail(todo[c]))
    /\ UNCHANGED <<variant, cacheFile, topLevelDependencies, fetching,
                   packageInfoCache, requests>>

\* processDependency on a new slot whose package is not cached: the request
\* goes out (v1, v4) or the rate-limit timer is awaited first (v3)
FirstSightingMiss(c) ==
    /\ pc[c] = "walk" /\ todo[c] # <<>>
    /\ WithinDepth(Head(todo[c]))
    /\ LET task == Head(todo[c])
           key == DepKey(task.dep, task.parentDirectory)
       IN /\ ~HasKey(dependencyMap[c], key)
          /\ task.dep.name \notin DOMAIN packageInfoCache[c]
          /\ dependencyMap' = [dependencyMap EXCEPT ![c] = Append(@, NewSlot(task))]
          /\ fetching' = [fetching EXCEPT ![c] = Def(task)]
          /\ todo' = [todo EXCEPT ![c] = Tail(@)]
          /\ IF variant = "v3"
             THEN pc' = [pc EXCEPT ![c] = "delay"] /\ UNCHANGED requests
             ELSE /\ pc' = [pc EXCEPT ![c] = "fetch"]
                  /\ requests' = [requests EXCEPT ![c] = Append(@, task.dep.name)]
    /\ UNCHANGED <<variant, cacheFile, topLevelDependencies, installationPlan,
                   packageInfoCache, versionUsageCount, outcome>>

\* v3 line 45-49: the timer fires and the request goes out
DelayElapsed(c) ==
    /\ pc[c] = "delay"
    /\ pc' = [pc EXCEPT ![c] = "fetch"]
    /\ requests' = [requests EXCEPT ![c] = Append(@, fetching[c][1].dep.name)]
    /\ UNCHANGED <<variant, cacheFile, topLevelDependencies, todo, fetching,
                   installationPlan, dependencyMap, packageInfoCache,
                   versionUsageCount, outcome>>

\* the request fails (transport error) or is answered with a status other
\* than 200: getCachedPackageInfo throws and the call rejects
FetchFails(c) ==
    /\ pc[c] = "fetch"
    /\ pc' = [pc EXCEPT ![c] = "failed"]
    /\ outcome' = [outcome EXCEPT ![c] = Rejected("FetchError")]
    /\ fetching' = [fetching EXCEPT ![c] = Undefined]
    /\ UNCHANGED <<variant, cacheFile, topLevelDependencies, todo, installationPlan,
                   dependencyMap, packageInfoCache, versionUsageCount, requests>>

\* v3 lines 76-81: the whole cache overwrites the file, unless the write throws
WriteCacheFile(file, cache, written) ==
    IF written THEN [state |-> "ok", json |-> cache] ELSE file

\* the registry answers 200: the metadata is cached (and the cache file
\* written, v3), and processDependency goes on with the resolution
FetchSucceeds(c) ==
    /\ pc[c] = "fetch"
    /\ LET task == fetching[c][1]
           name == task.dep.name
       IN /\ IsDef(RegistryVersions(name))
          /\ LET data == CachedData(variant, RegistryVersions(name)[1])
                 cache == MapSet(packageInfoCache[c], name, data)
             IN /\ packageInfoCache' = [packageInfoCache EXCEPT ![c] = cache]
                /\ IF variant = "v3"
                   THEN \E written \in BOOLEAN :
                            cacheFile' = WriteCacheFile(cacheFile, cache, written)
                   ELSE UNCHANGED cacheFile
                /\ Continue(c, Resolution(c, task, data), todo[c])
    /\ fetching' = [fetching EXCEPT ![c] = Undefined]
    /\ UNCHANGED <<variant, topLevelDependencies, dependencyMap, requests>>

\* what the call returns once the top-level loop is over
ReturnedPlan(v, usage, plan) ==
    IF v = "v4" THEN HoistPass(usage, plan) ELSE plan

\* the top-level loop is over: the hoisting pass (v4) and the return
HoistAndReturn(c) ==
    /\ pc[c] = "walk" /\ todo[c] = <<>>
    /\ LET plan == ReturnedPlan(variant, versionUsageCount[c], installationPlan[c])
       IN /\ installationPlan' = [installationPlan EXCEPT ![c] = plan]
          /\ outcome' = [outcome EXCEPT ![c] = Fulfilled(plan)]
    /\ pc' = [pc EXCEPT ![c] = "returned"]
    /\ UNCHANGED <<variant, cacheFile, topLevelDependencies, todo, fetching,
                   dependencyMap, packageInfoCache, versionUsageCount, requests>>

Step(c) ==
    \/ MergeSighting(c)
    \/ FirstSightingCached(c)
    \/ FirstSightingMiss(c)
    \/ DelayElapsed(c)
    \/ FetchFails(c)
    \/ FetchSucceeds(c)
    \/ HoistAndReturn(c)

\* one plan construction
Next ==
    \/ StartCall(1, TopInputs)
    \/ Step(1)

Spec == Init /\ [][Next]_vars

\* a process that calls the function MaxCalls times, the calls overlapping
\* at their suspension points
NextProcess ==
    \/ \E c \in Calls : StartCall(c, ProcessInputs)
    \/ \E c \in Calls : Step(c)

SpecProcess == Init /\ [][NextProcess]_vars

\* the arguments of the call whose completion is followed
LiveInputs ==
    { <<Dep(NameX, Star)>>,
      <<Dep(NameRoot, Star)>>,
      <<Dep(NameA, Caret(3, 0, 0))>> }

NextLive ==
    \/ StartCall(1, LiveInputs)
    \/ Step(1)

\* one plan construction that is called, whose continuations the event loop
\* runs and whose requests the registry answers
SpecLive == Init /\ [][NextLive]_vars /\ WF_vars(NextLive)

(***************************************************************************)
(* Vocabulary of the properties                                            *)
(***************************************************************************)

RECURSIVE SumCounts(_)
SumCounts(usage) ==
    IF usage = <<>> THEN 0 ELSE Head(usage).count + SumCounts(Tail(usage))

\* v4: the entries the walk appended are the first WalkLen(c) of the plan,
\* one per usage increment
WalkLen(c) == SumCounts(versionUsageCount[c])

\* the k-th entry of call c's plan was appended by the walk
IsWalkEntry(c, k) == variant # "v4" \/ k <= WalkLen(c)

\* the top-level install location is written undefined or "root"
Location(parentDirectory) == OrElse(parentDirectory, RootStr)

KnownVersions(name) ==
    IF IsDef(RegistryVersions(name))
    THEN {RegistryVersions(name)[1][i].version : i \in 1..Len(RegistryVersions(name)[1])}
    ELSE {}

Returned(c) == pc[c] = "returned"

\* the processDependency call a step of call c resolves, if it resolves one
CurrentTask(c) == IF pc[c] = "fetch" THEN fetching[c][1] ELSE Head(todo[c])

\* a step of call c in which processDependency reaches resolveVersion
ResolvesNow(c) ==
    \/ /\ pc[c] = "fetch" /\ pc'[c] = "walk"
    \/ /\ pc[c] = "fetch" /\ pc'[c] = "failed"
       /\ outcome'[c].error = "UnsatisfiableRange"
    \/ /\ pc[c] = "walk" /\ pc'[c] \in {"walk", "failed"}
       /\ Len(dependencyMap'[c]) = Len(dependencyMap[c]) + 1

Uniqueness ==
    \A c \in Calls :
        Returned(c) =>
            \A i, j \in 1..Len(outcome[c].value) :
                LET x == outcome[c].value[i]
                    y == outcome[c].value[j]
                IN i # j =>
                    ~ /\ x.name = y.name
                      /\ x.version = y.version
                      /\ Location(x.parentDirectory) = Location(y.parentDirectory)

(***************************************************************************)
(* C3: range satisfaction.  Every entry of a returned plan, appended by    *)
(* the walk or by the hoisting pass, names a package of the registry, at a *)
(* version the registry has for it, which satisfies the range of a slot of *)
(* that package (the entry's own slot, for a walk entry).                  *)
(***************************************************************************)
\* the range slot s was first resolved under (the first comparator set of
\* its recorded range, which a merge extends on the right) admits version
SlotRangeAdmits(s, version) ==
    \/ s.versionRange = Undefined
    \/ /\ IsDef(ParseRange(s.versionRange[1]))
       /\ TestComparator(ParseRange(s.versionRange[1])[1][1], ParseVersion(version)[1])

\* C3: every returned entry is a known version admitted by a slot's range
RangeSatisfaction ==
    \A c \in Calls :
        Returned(c) =>
            \A k \in 1..Len(outcome[c].value) :
                LET e == outcome[c].value[k] IN
                /\ e.version \in KnownVersions(e.name)
                /\ \E i \in 1..Len(dependencyMap[c]) :
                      LET s == dependencyMap[c][i] IN
                      /\ s.name = e.name
                      /\ (IsWalkEntry(c, k) => s.parentDirectory = e.parentDirectory)
                      /\ SlotRangeAdmits(s, e.version)

(***************************************************************************)
(* C4: resolution picks the maximum.  Whenever processDependency resolves  *)
(* a slot on first sighting, the entry it appends is for the highest       *)
(* version of the package, among all versions known for it, that satisfies *)
(* the range declared at that sighting; and the call fails there exactly   *)
(* when no known version satisfies that range.                             *)
(***************************************************************************)
ResolvesToMaximum(c) ==
    LET task == CurrentTask(c)
        known == KnownVersions(task.dep.name)
        sat == {v \in known : Satisfies(v, task.dep.version)}
    IN /\ (pc'[c] = "failed") <=> (sat = {})
       /\ pc'[c] = "walk" =>
            /\ Len(installationPlan'[c]) = Len(installationPlan[c]) + 1
            /\ LET e == installationPlan'[c][Len(installationPlan'[c])] IN
               /\ e.name = task.dep.name
               /\ e.parentDirectory = task.parentDirectory
               /\ e.version \in sat
               /\ \A w \in sat :
                     CompareVer(ParseVersion(w)[1], ParseVersion(e.version)[1]) <= 0

\* C4: every resolving step picks the maximum, or fails when there is none
MaximumResolution ==
    [][\A c \in Calls : ResolvesNow(c) => ResolvesToMaximum(c)]_vars

\* ^1.0.0 over 1.0.0, 1.2.0, 2.0.0 resolved to 1.2.0, and * over 2.0.0, 1.0.0
\* resolved to 2.0.0
MaximumResolutionWitness ==
    \E c \in Calls :
        /\ Returned(c)
        /\ \E k \in 1..Len(installationPlan[c]) :
              /\ installationPlan[c][k].name = NameA
              /\ installationPlan[c][k].version = Ver(1, 2, 0)
        /\ \E k \in 1..Len(installationPlan[c]) :
              /\ installationPlan[c][k].name = NameC
              /\ installationPlan[c][k].version = Ver(2, 0, 0)

(***************************************************************************)
(* C5: fetch count.  Within one plan construction the registry is asked at *)
(* most once for a package name, however many slots name it, and never     *)
(* for a name that is in the in-memory map (loaded from the cache file or  *)
(* fetched before).                                                        *)
(***************************************************************************)
FetchCount ==
    [][\A c \in Calls :
        requests'[c] # requests[c] =>
            \E n \in {fetching'[c][1].dep.name} :
                /\ requests'[c] = Append(requests[c], n)
                /\ n \notin DOMAIN packageInfoCache[c]
                /\ Occurrences(requests[c], n) = 0]_vars

\* v3: a package loaded from the cache file was used and never requested,
\* and a package with two slots was requested once
FetchCountWitness ==
    /\ variant = "v3" /\ Returned(1)
    /\ \E n \in DOMAIN LoadCache(variant, cacheFile) :
          /\ Occurrences(requests[1], n) = 0
          /\ \E i \in 1..Len(dependencyMap[1]) : dependencyMap[1][i].name = n
    /\ \E m \in DOMAIN packageInfoCache[1] :
          /\ Occurrences(requests[1], m) = 1
          /\ Cardinality({i \in 1..Len(dependencyMap[1]) :
                             dependencyMap[1][i].name = m}) >= 2

(***************************************************************************)
(* C6: fetches per process.  As claimed: over all the calls made in one    *)
(* process, a package name is requested from the registry at most once.    *)
(***************************************************************************)
RequestsOf(n) ==
    UNION {{<<c, i>> : i \in {k \in 1..Len(requests[c]) : requests[c][k] = n}} :
           c \in Calls}

\* C6 as claimed: no package name is requested twice in the process
OneRequestPerProcess ==
    \A c \in Calls :
        \A i \in 1..Len(requests[c]) :
            Cardinality(RequestsOf(requests[c][i])) <= 1

\* C6 as amended: the in-memory map is a local of the call, so the guarantee
\* is per call.  Each call requests a name at most once, and a name it has
\* requested is in its own in-memory map from the answer on (the request is
\* in flight, or failed and ended the call, otherwise).
OneRequestPerCall ==
    \A c \in Calls :
        \A i \in 1..Len(requests[c]) :
            LET n == requests[c][i] IN
            /\ Occurrences(requests[c], n) = 1
            /\ \/ n \in DOMAIN packageInfoCache[c]
               \/ /\ i = Len(requests[c])
                  /\ pc[c] \in {"fetch", "failed"}

\* two calls of one process each requested the same package, once each
OneRequestPerCallWitness ==
    /\ Returned(1) /\ Returned(2)
    /\ Occurrences(requests[1], NameA) = 1
    /\ Occurrences(requests[2], NameA) = 1
    /\ Cardinality({i \in 1..Len(dependencyMap[2]) : dependencyMap[2][i].name = NameA}) >= 1

(***************************************************************************)
(* C7: no duplicate root entry.  As claimed: a top-level dependency the    *)
(* walk resolved to version v has exactly one entry for that name and      *)
(* version at the top-level location in the returned plan, the hoisting    *)
(* pass adding none; and {a: ^1.0.0} alone returns the single entry        *)
(* a@1.2.0.                                                                *)
(***************************************************************************)
NoDuplicateRootEntry ==
    \A c \in Calls :
        Returned(c) /\ variant = "v4" =>
            LET plan == outcome[c].value IN
            /\ \A k \in 1..WalkLen(c) :
                  plan[k].parentDirectory = Undefined =>
                      Cardinality({m \in 1..Len(plan) :
                                      /\ plan[m].name = plan[k].name
                                      /\ plan[m].version = plan[k].version
                                      /\ Location(plan[m].parentDirectory) = RootStr}) = 1
            /\ topLevelDependencies[c] = <<Dep(NameA, Caret(1, 0, 0))>> =>
                  plan = <<PlanItem(NameA, Ver(1, 2, 0), Undefined)>>

(***************************************************************************)
(* C8: shared transitive dependency.  As claimed: when two top-level       *)
(* packages a and b each resolve to a version declaring c, the returned    *)
(* plan holds an entry for c at a/node_modules/c and one at                *)
(* b/node_modules/c, of one version, and exactly one entry for that        *)
(* version of c at root.                                                   *)
(***************************************************************************)
\* the dependencies the registry declares for name@version
Declared(name, version) == DependenciesOf(RegistryVersions(name)[1], version)

DeclaredNames(name, version) ==
    {Declared(name, version)[x].name : x \in 1..Len(Declared(name, version))}

\* the declaration of d by name@version (an object has each key once)
Declaration(name, version, d) ==
    LET x == CHOOSE y \in 1..Len(Declared(name, version)) :
                 Declared(name, version)[y].name = d
    IN Declared(name, version)[x]

\* the shared dependencies of a returned v4 plan: <<i, j, d>>, plan[i] and
\* plan[j] two top-level walk entries whose versions both declare d
SharedCases(c) ==
    LET plan == outcome[c].value
        top == {k \in 1..WalkLen(c) : plan[k].parentDirectory = Undefined}
    IN UNION {{<<i, j, d>> : d \in DeclaredNames(plan[i].name, plan[i].version)
                                   \cap DeclaredNames(plan[j].name, plan[j].version)} :
              <<i, j>> \in {r \in top \X top : r[1] # r[2]}}

IsMaxSatisfying(v, name, range) ==
    /\ v \in KnownVersions(name)
    /\ Satisfies(v, range)
    /\ \A w \in KnownVersions(name) :
          Satisfies(w, range) => CompareVer(ParseVersion(w)[1], ParseVersion(v)[1]) <= 0

HoistingCoverage ==
    \A c \in Calls :
        Returned(c) /\ variant = "v4" =>
            LET plan == outcome[c].value IN
            \A k \in 1..WalkLen(c) :
                \E m \in 1..Len(plan) :
                    plan[m] = PlanItem(plan[k].name, plan[k].version, Def(RootStr))

(***************************************************************************)
(* C10: the hoisting pass is idempotent.  Run again over the same usage    *)
(* ledger and the plan it returned, the pass appends nothing.              *)
(***************************************************************************)
HoistIdempotent ==
    \A c \in Calls :
        Returned(c) /\ variant = "v4" =>
            HoistPass(versionUsageCount[c], outcome[c].value) = outcome[c].value

\* the first run appended root entries, for a nested package among them
HoistIdempotentWitness ==
    \E c \in Calls :
        /\ Returned(c) /\ variant = "v4"
        /\ Len(outcome[c].value) >= WalkLen(c) + 3
        /\ \E k \in 1..WalkLen(c) :
              /\ outcome[c].value[k].parentDirectory # Undefined
              /\ outcome[c].value[k].parentDirectory # Def(RootStr)

(***************************************************************************)
(* C11: the merge branch                                                   *)
(***************************************************************************)
RegistryNames == {NameA, NameB, NameC, NameRoot, NameScoped, NameX, NameY}

\* every version some package of the registry has
RegistryVersionTexts == UNION {KnownVersions(n) : n \in RegistryNames}

\* the next processDependency call of call c is a repeated sighting
RepeatedSighting(c) ==
    /\ pc[c] = "walk" /\ todo[c] # <<>>
    /\ HasKey(dependencyMap[c], DepKey(Head(todo[c]).dep, Head(todo[c]).parentDirectory))

\* the slot a repeated sighting falls on
SightedSlot(c) ==
    IndexOfKey(dependencyMap[c], DepKey(Head(todo[c]).dep, Head(todo[c]).parentDirectory))

\* a repeated sighting leaves everything but the slot's range as it was, and
\* returns without a request and without descending
MergeFrame(c) ==
    /\ todo'[c] = Tail(todo[c])
    /\ pc'[c] = "walk"
    /\ Len(dependencyMap'[c]) = Len(dependencyMap[c])
    /\ \A j \in 1..Len(dependencyMap[c]) :
          /\ j # SightedSlot(c) => dependencyMap'[c][j] = dependencyMap[c][j]
          /\ dependencyMap'[c][j].key = dependencyMap[c][j].key
          /\ dependencyMap'[c][j].name = dependencyMap[c][j].name
          /\ dependencyMap'[c][j].parentDirectory = dependencyMap[c][j].parentDirectory
    /\ installationPlan'[c] = installationPlan[c]
    /\ versionUsageCount'[c] = versionUsageCount[c]
    /\ packageInfoCache'[c] = packageInfoCache[c]
    /\ cacheFile' = cacheFile
    /\ requests'[c] = requests[c]
    /\ fetching'[c] = fetching[c]
    /\ outcome'[c] = outcome[c]

\* the slot's new range admits exactly the versions the old range or the
\* newly declared range admits
MergedIsDisjunction(c) ==
    LET old == dependencyMap[c][SightedSlot(c)].versionRange
        new == Head(todo[c]).dep.version
        merged == dependencyMap'[c][SightedSlot(c)].versionRange
    IN /\ IsDef(merged)
       /\ \A v \in RegistryVersionTexts :
             Satisfies(v, merged[1]) <=>
                 (Satisfies(v, TemplateText(old)) \/ Satisfies(v, new))

\* C11: a repeated sighting of a key changes only that slot's range, to the
\* disjunction of the old and the new range; the plan, the ledger, the cache
\* and the requests stay as they were and the walk does not descend
MergeInert ==
    [][\A c \in Calls :
          (RepeatedSighting(c) /\ todo'[c] # todo[c]) =>
              (MergeFrame(c) /\ MergedIsDisjunction(c))]_vars

\* the frame part of C11 alone
MergeFrameOnly ==
    [][\A c \in Calls :
          (RepeatedSighting(c) /\ todo'[c] # todo[c]) => MergeFrame(c)]_vars

\* the disjunction part of C11 where the newly declared range is well formed
MergeOfValidRanges ==
    [][\A c \in Calls :
          (/\ RepeatedSighting(c) /\ todo'[c] # todo[c]
           /\ IsDef(ParseRange(Head(todo[c]).dep.version)))
              => MergedIsDisjunction(c)]_vars

(***************************************************************************)
(* C12: one slot and one walk entry per key                                *)
(***************************************************************************)
\* the key of the slot a plan entry was resolved for
EntryKey(e) == DepKey(Dep(e.name, <<>>), e.parentDirectory)

\* the walk entries of call c's plan that were resolved for the key
WalkEntriesOf(c, key) ==
    {k \in 1..Len(installationPlan[c]) :
        IsWalkEntry(c, k) /\ EntryKey(installationPlan[c][k]) = key}

\* C12: dependencyMap never holds two slots of one key, and the walk never
\* appends two plan entries for one key, however often the key is sighted
OneEntryPerSlot ==
    \A c \in Calls :
        /\ \A i, j \in 1..Len(dependencyMap[c]) :
              dependencyMap[c][i].key = dependencyMap[c][j].key => i = j
        /\ \A k \in 1..Len(installationPlan[c]) :
              IsWalkEntry(c, k) =>
                  /\ \E i \in 1..Len(dependencyMap[c]) :
                        dependencyMap[c][i].key = EntryKey(installationPlan[c][k])
                  /\ WalkEntriesOf(c, EntryKey(installationPlan[c][k])) = {k}

\* a call has returned with a slot that two declarations were merged into
\* and that has its one walk entry
OneEntryPerSlotWitness ==
    \E c \in Calls :
        /\ Returned(c)
        /\ \E i \in 1..Len(dependencyMap[c]) :
              /\ IsDef(dependencyMap[c][i].versionRange)
              /\ Len(ParseRange(dependencyMap[c][i].versionRange[1])[1]) = 2
              /\ Cardinality(WalkEntriesOf(c, dependencyMap[c][i].key)) = 1

(***************************************************************************)
(* C13: the outcome does not depend on the cache file                      *)
(***************************************************************************)
RECURSIVE WalkOutcome(_, _, _)
\* what the registry alone makes of the pending declarations: the plan of
\* the depth-first walk, every slot resolved once to the greatest version
\* its first declaration admits, or the first failure on the way
WalkOutcome(tasks, keys, plan) ==
    IF tasks = <<>> THEN Fulfilled(plan)
    ELSE LET t == Head(tasks)
             name == t.dep.name
             key == DepKey(t.dep, t.parentDirectory)
             sat == {v \in KnownVersions(name) : Satisfies(v, t.dep.version)}
         IN IF ~WithinDepth(t) THEN Pending
            ELSE IF key \in keys THEN WalkOutcome(Tail(tasks), keys, plan)
            ELSE IF RegistryVersions(name) = Undefined THEN Rejected("FetchError")
            ELSE IF sat = {} THEN Rejected("UnsatisfiableRange")
            ELSE LET v == CHOOSE w \in sat : IsMaxSatisfying(w, name, t.dep.version)
                 IN WalkOutcome(
                        ChildTasks(t.dep, t.parentDirectory, Declared(name, v))
                            \o Tail(tasks),
                        keys \cup {key},
                        Append(plan, PlanItem(name, v, t.parentDirectory)))

ExpectedOutcome(deps) ==
    WalkOutcome([i \in 1..Len(deps) |-> Task(deps[i], Undefined)], {}, <<>>)

Finished(c) == pc[c] \in {"returned", "failed"}

\* call c was rejected because a request for a package the registry has
\* was not answered
TransportFailure(c) ==
    /\ outcome[c].error = "FetchError"
    /\ IsDef(RegistryVersions(requests[c][Len(requests[c])]))

\* C13: with the registry answering, a v3 call ends as its top-level
\* dependencies and the registry alone determine, whatever the cache file
\* was when the call started (absent, malformed, or written by an earlier
\* or an overlapping call) and whichever of the cache writes failed; no call
\* is rejected for a cache error
CacheErrorsHarmless ==
    \A c \in Calls :
        (variant = "v3" /\ Finished(c) /\ ~TransportFailure(c)) =>
            /\ outcome[c] = ExpectedOutcome(topLevelDependencies[c])
            /\ outcome[c].error \in {"none", "FetchError", "UnsatisfiableRange"}

\* a v3 call returned a plan of several packages although the cache file
\* was malformed when it started and every write failed, and a later call
\* returned the same with the file still malformed
CacheErrorsHarmlessWitness ==
    /\ variant = "v3"
    /\ cacheFile.state = "malformed"
    /\ \A c \in Calls :
          /\ Returned(c)
          /\ Len(requests[c]) >= 2
          /\ Len(outcome[c].value) >= 2

(***************************************************************************)
(* C14: the cache file across calls                                        *)
(***************************************************************************)
\* C14: a successful write of the cache file keeps every package name the
\* file held, with the metadata it held
CacheFileAppendOnly ==
    [][(cacheFile.state = "ok" /\ cacheFile' # cacheFile) =>
          \A n \in DOMAIN cacheFile.json :
              /\ n \in DOMAIN cacheFile'.json
              /\ cacheFile'.json[n] = cacheFile.json[n]]_vars

(***************************************************************************)
(* C15: the hoisting pass only appends                                     *)
(***************************************************************************)
\* seq is the first Len(seq) entries of longer
IsPrefix(seq, longer) ==
    /\ Len(seq) <= Len(longer)
    /\ \A k \in 1..Len(seq) : longer[k] = seq[k]

\* the step of call c in which the hoisting pass runs and the plan is returned
HoistingStep(c) == variant = "v4" /\ pc[c] = "walk" /\ pc'[c] = "returned"

\* C15: the hoisting pass starts when every top-level dependency has been
\* processed and nothing is pending; the plan it finds is a prefix of the
\* plan it returns, every entry it adds is at "root", and neither the plan
\* nor the ledger changes after it
HoistOnlyAppends ==
    [][\A c \in Calls :
          /\ HoistingStep(c) =>
                /\ todo[c] = <<>> /\ fetching[c] = Undefined
                /\ \A i \in 1..Len(topLevelDependencies[c]) :
                      HasKey(dependencyMap[c], DepKey(topLevelDependencies[c][i], Undefined))
                /\ IsPrefix(installationPlan[c], outcome'[c].value)
                /\ installationPlan'[c] = outcome'[c].value
                /\ \A k \in (Len(installationPlan[c]) + 1)..Len(outcome'[c].value) :
                      outcome'[c].value[k].parentDirectory = Def(RootStr)
                /\ versionUsageCount'[c] = versionUsageCount[c]
          /\ Returned(c) =>
                /\ installationPlan'[c] = installationPlan[c]
                /\ versionUsageCount'[c] = versionUsageCount[c]
                /\ outcome'[c] = outcome[c]]_vars

\* a v4 call has returned a plan that ends in entries the hoisting pass
\* added behind the entries of the walk
HoistOnlyAppendsWitness ==
    \E c \in Calls :
        /\ variant = "v4" /\ Returned(c)
        /\ WalkLen(c) >= 2
        /\ Len(outcome[c].value) >= WalkLen(c) + 2

(***************************************************************************)
(* C16: the order of the plan                                              *)
(***************************************************************************)
\* where the children of the package `name` installed at L are installed:
\* L/node_modules/name, or name when L is undefined
ChildLocationOf(name, L) ==
    IF L = Undefined THEN name
    ELSE L[1] \o <<"/">> \o NodeModulesStr \o <<"/">> \o name

WalkEntries(c) == {k \in 1..Len(installationPlan[c]) : IsWalkEntry(c, k)}

\* the install location of the children of the i-th plan entry
SubtreeRoot(c, i) ==
    ChildLocationOf(installationPlan[c][i].name, installationPlan[c][i].parentDirectory)

\* the k-th plan entry is a descendant of the i-th
InSubtree(c, i, k) ==
    LET L == installationPlan[c][k].parentDirectory IN
    /\ IsDef(L)
    /\ \/ L[1] = SubtreeRoot(c, i)
       \/ IsPrefix(SubtreeRoot(c, i) \o <<"/">>, L[1])

PositionIn(deps, name) == CHOOSE x \in 1..Len(deps) : deps[x].name = name

\* the declarations the k-th plan entry is one of: the top-level
\* dependencies, or the manifest of its parent's resolved version
SiblingDeclarations(c, k) ==
    LET L == installationPlan[c][k].parentDirectory IN
    IF L = Undefined THEN topLevelDependencies[c]
    ELSE LET p == CHOOSE i \in WalkEntries(c) : SubtreeRoot(c, i) = L[1]
         IN Declared(installationPlan[c][p].name, installationPlan[c][p].version)

DepthFirstOrder(c) ==
    LET plan == installationPlan[c] IN
    \A i, k \in WalkEntries(c) :
        \* every nested entry has its parent in the plan
        /\ IsDef(plan[k].parentDirectory) =>
              \E p \in WalkEntries(c) : SubtreeRoot(c, p) = plan[k].parentDirectory[1]
        \* an entry precedes its descendants
        /\ InSubtree(c, i, k) => i < k
        \* and they follow it without an entry of another subtree in between
        /\ InSubtree(c, i, k) => \A j \in (i + 1)..k : InSubtree(c, i, j)
        \* siblings come in the order of their declarations
        /\ (i < k /\ plan[i].parentDirectory = plan[k].parentDirectory) =>
              PositionIn(SiblingDeclarations(c, k), plan[i].name)
                  < PositionIn(SiblingDeclarations(c, k), plan[k].name)

\* a call has at most one request in flight: a request goes out only while
\* none is awaited, and entries are appended one at a time
OneAtATime(c) ==
    /\ requests'[c] # requests[c] =>
          /\ pc[c] # "fetch" /\ pc'[c] = "fetch"
          /\ Len(requests'[c]) = Len(requests[c]) + 1
    /\ (pc[c] \in {"delay", "fetch"}) = IsDef(fetching[c])
    /\ ~Returned(c) /\ ~HoistingStep(c) =>
          Len(installationPlan'[c]) \in
              {Len(installationPlan[c]), Len(installationPlan[c]) + 1}

PendingBefore(c) == IF pc[c] = "fetch" THEN todo[c] ELSE Tail(todo[c])

\* a step that resolves the node n at L leaves, ahead of the calls already
\* pending, one call per dependency the resolved version declares, each at
\* L/node_modules/n, or at n when L is undefined
ChildrenAtChildLocation(c) ==
    LET task == CurrentTask(c)
        e == installationPlan'[c][Len(installationPlan'[c])]
        deps == Declared(e.name, e.version)
        n == Len(todo'[c]) - Len(PendingBefore(c))
    IN /\ e.name = task.dep.name /\ e.parentDirectory = task.parentDirectory
       /\ n = Len(deps)
       /\ \A i \in 1..n :
             /\ todo'[c][i].dep = deps[i]
             /\ todo'[c][i].parentDirectory =
                    Def(ChildLocationOf(task.dep.name, task.parentDirectory))
       /\ \A i \in 1..Len(PendingBefore(c)) : todo'[c][n + i] = PendingBefore(c)[i]

\* the children of distinct nodes are installed at distinct locations
DistinctChildLocations(c) ==
    \A i, k \in WalkEntries(c) :
        SubtreeRoot(c, i) = SubtreeRoot(c, k) => i = k

\* C17: the children of a node n at L are processed at L/node_modules/n, at
\* n when L is undefined: all children of one node at one location, the
\* children of distinct nodes at distinct locations
ChildLocation ==
    /\ [][\A c \in Calls :
             (ResolvesNow(c) /\ pc'[c] = "walk") => ChildrenAtChildLocation(c)]_vars
    /\ [](\A c \in Calls : DistinctChildLocations(c))

\* the plan holds the child of a nested node, and that child declares a
\* dependency of its own that is now pending
ChildLocationWitness ==
    \E c \in Calls :
        /\ pc[c] = "walk" /\ todo[c] # <<>>
        /\ Depth(Head(todo[c]).parentDirectory) = 3
        /\ \E k \in WalkEntries(c) :
              /\ Depth(installationPlan[c][k].parentDirectory) = 2
              /\ SubtreeRoot(c, k) = Head(todo[c]).parentDirectory[1]

(***************************************************************************)
(* C18: the usage ledger and the plan                                      *)
(***************************************************************************)
\* the plan entries of call c resolved to the name and version of a ledger
\* key, in plan order
EntriesOfKey(c, key) ==
    SelectSeq(installationPlan[c], LAMBDA e : VersionCountKey(e.name, e.version) = key)

\* C18: while the walk runs and when the hoisting pass starts, each ledger
\* key's count is the number of its parentDirectories and the number of
\* plan entries of that name and version, the parentDirectories are those
\* entries' locations in plan order ("root" for undefined), and every plan
\* entry's name and version is a ledger key
LedgerConsistent ==
    \A c \in Calls :
        (variant = "v4" /\ ~Returned(c)) =>
            LET usage == versionUsageCount[c] IN
            /\ \A i, j \in 1..Len(usage) : usage[i].key = usage[j].key => i = j
            /\ \A i \in 1..Len(usage) :
                  LET entries == EntriesOfKey(c, usage[i].key) IN
                  /\ usage[i].count = Len(usage[i].parentDirectories)
                  /\ usage[i].count = Len(entries)
                  /\ usage[i].count >= 1
                  /\ usage[i].parentDirectories =
                         [k \in 1..Len(entries) |-> Location(entries[k].parentDirectory)]
            /\ \A k \in 1..Len(installationPlan[c]) :
                  \E i \in 1..Len(usage) :
                      usage[i].key = VersionCountKey(installationPlan[c][k].name,
                                                     installationPlan[c][k].version)

\* the walk of a v4 call is over and the ledger holds a version used at
\* three locations, the top level among them, and another used once
LedgerConsistentWitness ==
    \E c \in Calls :
        /\ variant = "v4" /\ pc[c] = "walk" /\ todo[c] = <<>>
        /\ \E i, j \in 1..Len(versionUsageCount[c]) :
              /\ versionUsageCount[c][i].count = 3
              /\ \E k \in 1..3 : versionUsageCount[c][i].parentDirectories[k] = RootStr
              /\ versionUsageCount[c][j].count = 1

(***************************************************************************)
(* C19: termination.  processDependency is deterministic in the registry:  *)
(* what it does below a node depends on the node's package and version     *)
(* only, and every slot below a node is new, its key holding the node's    *)
(* longer directory.  A walk that resolves a package version below an      *)
(* entry of the same package version therefore does below the second what  *)
(* it did below the first, one level deeper each time, and never ends.     *)
(***************************************************************************)
\* the k-th plan entry is the package version of the i-th and lies below it
BelowItself(c, i, k) ==
    /\ InSubtree(c, i, k)
    /\ installationPlan[c][k].name = installationPlan[c][i].name
    /\ installationPlan[c][k].version = installationPlan[c][i].version

\* C19: for every finite registry, packages that depend on each other
\* included, the walk visits finitely many slots and the call completes:
\* the walk never resolves a package version below itself
NoPackageBelowItself ==
    \A c \in Calls : \A i, k \in WalkEntries(c) : ~BelowItself(c, i, k)

\* the liveness reading of C19 under SpecLive: the call that is made is
\* eventually fulfilled or rejected
Termination == <>Finished(1)

\* what holds instead: the call completes or its walk passes MaxDepth
TerminationWithinDepth ==
    <>(\/ Finished(1)
       \/ pc[1] = "walk" /\ todo[1] # <<>> /\ ~WithinDepth(Head(todo[1])))

(***************************************************************************)
(* C20: completeness of the walk                                           *)
(***************************************************************************)
\* the plan of call c holds a walk entry for the declaration at the location
HasWalkEntryFor(c, decl, parentDirectory) ==
    \E m \in WalkEntries(c) :
        /\ installationPlan[c][m].name = decl.name
        /\ installationPlan[c][m].parentDirectory = parentDirectory
        /\ IsMaxSatisfying(installationPlan[c][m].version, decl.name, decl.version)

WalkComplete(c) ==
    /\ \A i \in 1..Len(topLevelDependencies[c]) :
          HasWalkEntryFor(c, topLevelDependencies[c][i], Undefined)
    /\ \A k \in WalkEntries(c) :
          LET deps == Declared(installationPlan[c][k].name, installationPlan[c][k].version)
          IN \A x \in 1..Len(deps) :
                HasWalkEntryFor(c, deps[x], Def(SubtreeRoot(c, k)))

\* C20: in every returned plan, whatever the packages are called, every
\* top-level dependency has a walk entry at the top level, and every
\* dependency declared by a walk entry's version has a walk entry at the
\* entry's child location, each resolved to the greatest version its own
\* declared range admits
Completeness ==
    \A c \in Calls : Returned(c) => WalkComplete(c)

\* the same for the calls in whose walk no package is called root
CompletenessWithoutRoot ==
    \A c \in Calls :
        (/\ Returned(c)
         /\ \A i \in 1..Len(dependencyMap[c]) : dependencyMap[c][i].name # NameRoot)
            => WalkComplete(c)

====
